---- MODULE Spec2Model ----
(***************************************************************************)
(* Model of examples/voice_agents/basic_agent.py: the                      *)
(* IntelligentInterruptionHandler (speaking flag, filler vocabulary,       *)
(* is_ignored) and the IntelligentAgent hooks that drive it.               *)
(*                                                                         *)
(* A text is a sequence of one-character strings, so that lower(),         *)
(* strip(), replace() and the \b\w+\b tokenizer are computed character by  *)
(* character as the Python code computes them.                             *)
(***************************************************************************)
EXTENDS Integers, Sequences, FiniteSets, TLC

\* ------------------------------------------------------------------ bounds

\* Every text of at most MaxLen characters over Chars is an input.
MaxLen == 3

\* ------------------------------------------------------- characters, texts

UpperCase == <<"A","B","C","D","E","F","G","H","I","J","K","L","M",
               "N","O","P","Q","R","S","T","U","V","W","X","Y","Z">>
LowerCase == <<"a","b","c","d","e","f","g","h","i","j","k","l","m",
               "n","o","p","q","r","s","t","u","v","w","x","y","z">>
Digits == {"0","1","2","3","4","5","6","7","8","9"}

Range(s) == {s[i] : i \in 1..Len(s)}

\* str.strip() with no argument strips these.
Whitespace == {" ", "\t", "\n"}

\* The characters the enumerated inputs are built from: letters of both
\* cases, the two characters replace() deletes, a hyphen and a blank.
Chars == {"u", "h", "U", ".", "?", "-", " "}

\* Utterances named by the documentation of the filter.
T_uh_huh == <<"u", "h", "-", "h", "u", "h">>
T_uh_oh == <<"u", "h", "-", "o", "h">>
T_okay_dot == <<"o", "k", "a", "y", ".">>
T_okay == <<"o", "k", "a", "y">>
T_Okay_q == <<"O", "k", "a", "y", "?">>
T_YEAH == <<"Y", "E", "A", "H">>
T_yeah == <<"y", "e", "a", "h">>
T_dots == <<".", ".", ".">>
T_mixed == <<"o", "k", "a", "y", " ", "b", "u", "t", " ", "w", "h", "a", "t", " ",
             "a", "b", "o", "u", "t", " ", "t", "o", "m", "o", "r", "r", "o", "w">>
T_two_fillers == <<"Y", "e", "a", "h", ",", " ", "o", "k", ".">>
T_underscore == <<"_">>
T_tab == <<"\t">>
T_bang == <<"?", "!">>

SampleTexts == {T_uh_huh, T_uh_oh, T_okay_dot, T_okay, T_Okay_q, T_YEAH, T_yeah,
                T_dots, T_mixed, T_two_fillers, T_underscore, T_tab, T_bang}

Texts == UNION {[1..n -> Chars] : n \in 0..MaxLen} \cup SampleTexts

\* ------------------------------------------- IntelligentInterruptionHandler

\* IGNORED_WORDS as shipped.
ShippedWords == {
    <<"y", "e", "a", "h">>, <<"o", "k">>, <<"o", "k", "a", "y">>, <<"a", "h", "a">>,
    <<"u", "h", "-", "h", "u", "h">>, <<"r", "i", "g", "h", "t">>, <<"m", "h", "m">>,
    <<"h", "m", "m">>, <<"u", "m">>, <<"u", "h">> }

\* str.lower(), one character.
lower_char(c) ==
    IF \E i \in 1..Len(UpperCase) : UpperCase[i] = c
    THEN LowerCase[CHOOSE i \in 1..Len(UpperCase) : UpperCase[i] = c]
    ELSE c

lower(s) == [i \in 1..Len(s) |-> lower_char(s[i])]

RECURSIVE lstrip(_)
lstrip(s) == IF s # <<>> /\ Head(s) \in Whitespace THEN lstrip(Tail(s)) ELSE s

RECURSIVE rstrip(_)
rstrip(s) ==
    IF s # <<>> /\ s[Len(s)] \in Whitespace THEN rstrip(SubSeq(s, 1, Len(s) - 1)) ELSE s

strip(s) == rstrip(lstrip(s))

\* str.replace(c, ''): every occurrence of the character is deleted.
replace(s, c) == SelectSeq(s, LAMBDA x : x # c)

\* Faulty variant of IsWordChar: a hyphen joins the words around it into one token.
IsWordChar_or_hyphen(c) ==
    c \in Range(LowerCase) \cup Range(UpperCase) \cup Digits \cup {"_", "-"}

\* \w of the re module, on the characters of the model.
IsWordChar(c) == c \in Range(LowerCase) \cup Range(UpperCase) \cup Digits \cup {"_"}

\* re.findall(r'\b\w+\b', s) scanning from position i, cur being the run of
\* word characters read so far: the matches are the maximal runs.
RECURSIVE scan(_, _, _)
scan(s, i, cur) ==
    IF i > Len(s)
    THEN (IF cur = <<>> THEN <<>> ELSE <<cur>>)
    ELSE IF IsWordChar(s[i])
    THEN scan(s, i + 1, Append(cur, s[i]))
    ELSE (IF cur = <<>> THEN <<>> ELSE <<cur>>) \o scan(s, i + 1, <<>>)

findall(s) == scan(s, 1, <<>>)

\* Faulty variant of normalize: '.' and '?' removed at the end of the text only.
RECURSIVE rstrip_marks(_)
rstrip_marks(s) ==
    IF s # <<>> /\ s[Len(s)] \in {".", "?"}
    THEN rstrip_marks(SubSeq(s, 1, Len(s) - 1))
    ELSE s

normalize_trailing_marks(transcription_text) ==
    rstrip_marks(strip(lower(transcription_text)))

\* text = transcription_text.lower().strip().replace('.', '').replace('?', '')
normalize(transcription_text) ==
    replace(replace(strip(lower(transcription_text)), "."), "?")

\* Faulty variants of is_only_filler: any() for all(); an empty word list refused.
is_only_filler_any(words, vocabulary) ==
    \E i \in 1..Len(words) : words[i] \in vocabulary

is_only_filler_nonempty(words, vocabulary) ==
    /\ words # <<>>
    /\ \A i \in 1..Len(words) : words[i] \in vocabulary

\* all(word in self.IGNORED_WORDS for word in words)
is_only_filler(words, vocabulary) ==
    \A i \in 1..Len(words) : words[i] \in vocabulary

\* Faulty variants of is_ignored: the silent-agent return dropped; the empty-text
\* return dropped.
is_ignored_no_state_check(speaking, vocabulary, transcription_text) ==
    IF transcription_text = <<>>
    THEN FALSE
    ELSE is_only_filler(findall(normalize(transcription_text)), vocabulary)

is_ignored_no_empty_check(speaking, vocabulary, transcription_text) ==
    IF ~speaking
    THEN FALSE
    ELSE is_only_filler(findall(normalize(transcription_text)), vocabulary)

\* is_ignored: TRUE is IGNORE (suppress), FALSE is RESPOND/INTERRUPT (forward).
is_ignored(speaking, vocabulary, transcription_text) ==
    IF transcription_text = <<>>
    THEN FALSE
    ELSE LET text == normalize(transcription_text)
             words == findall(text)
         IN  IF ~speaking
             THEN FALSE
             ELSE IF is_only_filler(words, vocabulary) THEN TRUE ELSE FALSE

\* -------------------------------------------------------------------- state

VARIABLES
    is_agent_speaking,  \* IntelligentInterruptionHandler.is_agent_speaking
    IGNORED_WORDS,      \* IntelligentInterruptionHandler.IGNORED_WORDS
    utterance,          \* the text the runtime transcribes in this behaviour
                        \* (any text of Texts, chosen by Init)
    latest,             \* history: <<>> or <<b>>, the most recent notification
    last_call,          \* history: the most recent direct is_ignored call
    turn,               \* the most recent on_user_turn_completed
    frame               \* the on_user_turn_completed call in progress, when
                        \* its statements are interleaved with notifications

vars == <<is_agent_speaking, IGNORED_WORDS, utterance, latest, last_call, turn, frame>>

NoCall == [called |-> FALSE]
NoTurn == [completed |-> FALSE]

\* No hook call in progress. read and at_verdict are history: each is <<>> or
\* <<latest>> as it was when line 57 read the flag and when line 63 ran.
Idle == [pc |-> "idle", transcript |-> <<>>, words |-> <<>>, read |-> <<>>,
         at_verdict |-> <<>>, ret |-> FALSE, downstream |-> 0]

\* kwargs.get('new_message'): nothing, an object without a text attribute,
\* or a message carrying the transcript.
None == [tag |-> "None"]
Bare == [tag |-> "object"]
Message(t) == [tag |-> "message", text |-> t]

\* IntelligentAgent.__init__ builds the handler with is_agent_speaking=False.
Init ==
    /\ is_agent_speaking = FALSE
    /\ IGNORED_WORDS = ShippedWords
    /\ utterance \in Texts
    /\ latest = <<>>
    /\ last_call = NoCall
    /\ turn = NoTurn
    /\ frame = Idle

\* --------------------------------------------------------------- operations

\* Faulty variant of set_agent_speaking_state: the flag is only ever raised.
set_agent_speaking_state_sticky(is_speaking) ==
    is_agent_speaking' = (is_agent_speaking \/ is_speaking)

set_agent_speaking_state(is_speaking) ==
    is_agent_speaking' = is_speaking

on_agent_speech_start ==
    /\ set_agent_speaking_state(TRUE)
    /\ latest' = <<TRUE>>
    /\ UNCHANGED <<IGNORED_WORDS, utterance, last_call, turn, frame>>

on_agent_speech_end ==
    /\ set_agent_speaking_state(FALSE)
    /\ latest' = <<FALSE>>
    /\ UNCHANGED <<IGNORED_WORDS, utterance, last_call, turn, frame>>

\* Faulty variant of is_ignored_call: the query lowers the flag it has read.
is_ignored_call_clears_flag ==
    /\ last_call' = [called |-> TRUE,
                     heard |-> latest,
                     speaking |-> is_agent_speaking,
                     words |-> findall(normalize(utterance)),
                     ret |-> is_ignored(is_agent_speaking, IGNORED_WORDS, utterance)]
    /\ is_agent_speaking' = FALSE
    /\ UNCHANGED <<IGNORED_WORDS, utterance, latest, turn, frame>>

\* A caller of the handler's public method is_ignored with the utterance.
is_ignored_call ==
    /\ last_call' = [called |-> TRUE,
                     heard |-> latest,
                     speaking |-> is_agent_speaking,
                     words |-> findall(normalize(utterance)),
                     ret |-> is_ignored(is_agent_speaking, IGNORED_WORDS, utterance)]
    /\ UNCHANGED <<is_agent_speaking, IGNORED_WORDS, utterance, latest, turn, frame>>

\* The transcript the hook extracts from new_message.
extract_transcript(new_message) ==
    IF new_message # None /\ "text" \in DOMAIN new_message
    THEN new_message.text
    ELSE <<>>

\* Faulty variant of on_user_turn_completed: the return after the PASSIVE ACKNOWLEDGE
\* log is missing, so an ignored turn falls through to the parent.
on_user_turn_completed_no_return(new_message) ==
    LET transcript == extract_transcript(new_message)
    IN  /\ turn' =
            IF transcript = <<>>
            THEN [completed |-> TRUE, new_message |-> new_message,
                  transcript |-> transcript, heard |-> latest,
                  speaking |-> is_agent_speaking,
                  classified |-> FALSE, is_ignored_input |-> FALSE, downstream |-> 0]
            ELSE [completed |-> TRUE, new_message |-> new_message,
                  transcript |-> transcript, heard |-> latest,
                  speaking |-> is_agent_speaking,
                  classified |-> TRUE,
                  is_ignored_input |->
                      is_ignored(is_agent_speaking, IGNORED_WORDS, transcript),
                  downstream |-> 1]
        /\ UNCHANGED <<is_agent_speaking, IGNORED_WORDS, utterance, latest, last_call, frame>>

\* The whole hook: extraction, the empty guard, the classifier, and the
\* delegation to the parent's on_user_turn_completed (downstream counts the
\* calls of it made by this turn).
on_user_turn_completed(new_message) ==
    LET transcript == extract_transcript(new_message)
    IN  /\ turn' =
            IF transcript = <<>>
            THEN [completed |-> TRUE, new_message |-> new_message,
                  transcript |-> transcript, heard |-> latest,
                  speaking |-> is_agent_speaking,
                  classified |-> FALSE, is_ignored_input |-> FALSE, downstream |-> 0]
            ELSE LET is_ignored_input ==
                         is_ignored(is_agent_speaking, IGNORED_WORDS, transcript)
                 IN  [completed |-> TRUE, new_message |-> new_message,
                      transcript |-> transcript, heard |-> latest,
                      speaking |-> is_agent_speaking,
                      classified |-> TRUE, is_ignored_input |-> is_ignored_input,
                      downstream |-> IF is_ignored_input THEN 0 ELSE 1]
        /\ UNCHANGED <<is_agent_speaking, IGNORED_WORDS, utterance, latest, last_call, frame>>

Next ==
    \/ on_agent_speech_start
    \/ on_agent_speech_end
    \/ is_ignored_call
    \/ \E new_message \in {None, Bare, Message(utterance)} :
           on_user_turn_completed(new_message)

Spec == Init /\ [][Next]_vars

\* ------------------------------------------- the hook, statement by statement

\* The same hook with each statement a step of its own, so that speech-start
\* and speech-end notifications may fall between any two of them. (The
\* asyncio loop runs the hook without a break up to its only await, line 134;
\* these interleavings include that schedule and those of a threaded host.)

\* Lines 110-115: the transcript is taken from new_message.
turn_extract(new_message) ==
    /\ frame.pc \in {"idle", "returned"}
    /\ frame' = [Idle EXCEPT !.pc = "guard",
                             !.transcript = extract_transcript(new_message)]
    /\ UNCHANGED <<is_agent_speaking, IGNORED_WORDS, utterance, latest, last_call, turn>>

\* Lines 117-122: an empty transcript returns; any other enters is_ignored.
turn_guard ==
    /\ frame.pc = "guard"
    /\ frame' = [frame EXCEPT !.pc = IF frame.transcript = <<>>
                                     THEN "returned" ELSE "entry"]
    /\ UNCHANGED <<is_agent_speaking, IGNORED_WORDS, utterance, latest, last_call, turn>>

\* Lines 50-51.
is_ignored_entry ==
    /\ frame.pc = "entry"
    /\ frame' = IF frame.transcript = <<>>
                THEN [frame EXCEPT !.pc = "decide", !.ret = FALSE]
                ELSE [frame EXCEPT !.pc = "normalize"]
    /\ UNCHANGED <<is_agent_speaking, IGNORED_WORDS, utterance, latest, last_call, turn>>

\* Lines 53-54.
is_ignored_normalize ==
    /\ frame.pc = "normalize"
    /\ frame' = [frame EXCEPT !.pc = "read_flag",
                              !.words = findall(normalize(frame.transcript))]
    /\ UNCHANGED <<is_agent_speaking, IGNORED_WORDS, utterance, latest, last_call, turn>>

\* Lines 57-58: the one read of self.is_agent_speaking.
is_ignored_read_flag ==
    /\ frame.pc = "read_flag"
    /\ frame' = IF ~is_agent_speaking
                THEN [frame EXCEPT !.pc = "decide", !.ret = FALSE, !.read = <<latest>>]
                ELSE [frame EXCEPT !.pc = "filler", !.read = <<latest>>]
    /\ UNCHANGED <<is_agent_speaking, IGNORED_WORDS, utterance, latest, last_call, turn>>

\* Faulty variant of is_ignored_filler: the flag is consulted a second time.
is_ignored_filler_rereads ==
    /\ frame.pc = "filler"
    /\ frame' = [frame EXCEPT !.pc = "decide",
                              !.at_verdict = <<latest>>,
                              !.ret = /\ is_agent_speaking
                                      /\ is_only_filler(frame.words, IGNORED_WORDS)]
    /\ UNCHANGED <<is_agent_speaking, IGNORED_WORDS, utterance, latest, last_call, turn>>

\* Lines 63-70.
is_ignored_filler ==
    /\ frame.pc = "filler"
    /\ frame' = [frame EXCEPT !.pc = "decide",
                              !.at_verdict = <<latest>>,
                              !.ret = is_only_filler(frame.words, IGNORED_WORDS)]
    /\ UNCHANGED <<is_agent_speaking, IGNORED_WORDS, utterance, latest, last_call, turn>>

\* Lines 124-134: an ignored turn returns, any other goes to the parent.
turn_decide ==
    /\ frame.pc = "decide"
    /\ frame' = [frame EXCEPT !.pc = "returned",
                              !.downstream = IF frame.ret THEN 0 ELSE 1]
    /\ UNCHANGED <<is_agent_speaking, IGNORED_WORDS, utterance, latest, last_call, turn>>

NextInterleaved ==
    \/ on_agent_speech_start
    \/ on_agent_speech_end
    \/ \E new_message \in {None, Bare, Message(utterance)} : turn_extract(new_message)
    \/ turn_guard
    \/ is_ignored_entry
    \/ is_ignored_normalize
    \/ is_ignored_read_flag
    \/ is_ignored_filler
    \/ turn_decide

SpecInterleaved == Init /\ [][NextInterleaved]_vars

\* ------------------------------------------------------------------- claims

\* The verdict names of the documentation: is_ignored's TRUE and FALSE.
SUPPRESS == TRUE
FORWARD == FALSE

\* C1: whenever the speaking flag is false, is_ignored returns FORWARD for
\* every text (filler-only, punctuation-only, whitespace-only, empty), and a
\* turn classified while the agent is silent reaches the parent's processing.
C1_SilentAlwaysForwards ==
    /\ (last_call.called /\ ~last_call.speaking) => last_call.ret = FORWARD
    /\ (turn.completed /\ turn.classified /\ ~turn.speaking)
           => (turn.is_ignored_input = FORWARD /\ turn.downstream = 1)

C1_Witness ==
    /\ utterance = T_yeah
    /\ last_call.called /\ ~last_call.speaking /\ last_call.ret = FORWARD

\* C2: while the speaking flag is true and the text has at least one token,
\* is_ignored returns SUPPRESS if and only if every token is in the filler
\* vocabulary; "okay but what about tomorrow" is FORWARD.
C2_SuppressIffAllTokensFiller ==
    /\ (last_call.called /\ last_call.speaking /\ last_call.words # <<>>)
           => (last_call.ret = SUPPRESS <=> Range(last_call.words) \subseteq IGNORED_WORDS)
    /\ (last_call.called /\ last_call.speaking /\ utterance = T_mixed)
           => last_call.ret = FORWARD
    /\ (last_call.called /\ last_call.speaking /\ utterance = T_two_fillers)
           => last_call.ret = SUPPRESS

C2_Witness ==
    /\ utterance = T_mixed
    /\ last_call.called /\ last_call.speaking
    /\ Len(last_call.words) = 5
    /\ last_call.words[1] \in IGNORED_WORDS
    /\ last_call.ret = FORWARD

IsBlank(t) == \A i \in 1..Len(t) : t[i] \in Whitespace

\* C3 as stated: for every empty or whitespace-only text is_ignored returns
\* FORWARD, whatever the speaking flag.
C3_BlankAlwaysForwards ==
    (last_call.called /\ IsBlank(utterance)) => last_call.ret = FORWARD

\* C3 amended: the empty text is FORWARD whatever the flag; a non-empty
\* whitespace-only text is FORWARD while the agent is silent and SUPPRESS
\* while it speaks (it has no tokens, so all of them are fillers).
C3_BlankForwardsOnlyIfEmptyOrSilent ==
    (last_call.called /\ IsBlank(utterance))
        => /\ last_call.words = <<>>
           /\ last_call.ret =
                  (IF utterance # <<>> /\ last_call.speaking THEN SUPPRESS ELSE FORWARD)

C3_Witness ==
    /\ utterance = <<" ", " ">>
    /\ last_call.called /\ last_call.speaking /\ last_call.ret = SUPPRESS

\* C4: the speaking flag equals the most recent speech-start/speech-end
\* notification (false before the first), and every classification uses the
\* flag of that moment: "yeah" is SUPPRESS after a start and FORWARD after
\* an end, in a direct call and in a completed turn alike.
C4_FlagIsLatestNotification ==
    /\ is_agent_speaking = (latest = <<TRUE>>)
    /\ last_call.called
           => last_call.ret =
                  is_ignored(last_call.heard = <<TRUE>>, IGNORED_WORDS, utterance)
    /\ (last_call.called /\ utterance = T_yeah)
           => last_call.ret = (IF last_call.heard = <<TRUE>> THEN SUPPRESS ELSE FORWARD)
    /\ (turn.completed /\ turn.classified /\ turn.transcript = T_yeah)
           => turn.is_ignored_input =
                  (IF turn.heard = <<TRUE>> THEN SUPPRESS ELSE FORWARD)

C4_Witness ==
    /\ utterance = T_yeah
    /\ turn.completed /\ turn.classified
    /\ turn.heard = <<TRUE>> /\ turn.is_ignored_input = SUPPRESS
    /\ latest = <<FALSE>>
    /\ last_call.called /\ last_call.heard = <<FALSE>> /\ last_call.ret = FORWARD

\* Punctuation characters of the inputs; the underscore among them is a
\* word character of \w.
Punctuation == {"!", ",", "-", ".", ":", ";", "?", "_"}

\* C5: while the speaking flag is true, a non-empty text of punctuation
\* characters only that yields no token is SUPPRESS, and the empty text is
\* FORWARD. (Punctuation other than the underscore yields no token.)
C5_PunctuationOnlySuppressed ==
    /\ (last_call.called /\ last_call.speaking /\ utterance # <<>>
           /\ Range(utterance) \subseteq Punctuation /\ last_call.words = <<>>)
           => last_call.ret = SUPPRESS
    /\ (last_call.called /\ Range(utterance) \subseteq Punctuation \ {"_"})
           => last_call.words = <<>>
    /\ (last_call.called /\ last_call.speaking /\ utterance = <<>>)
           => last_call.ret = FORWARD

C5_Witness ==
    /\ utterance = T_dots
    /\ last_call.called /\ last_call.speaking
    /\ last_call.words = <<>> /\ last_call.ret = SUPPRESS

\* The texts one edit away from t: one '.' or '?' inserted or deleted
\* anywhere, or the case of one letter changed.
upper_char(c) ==
    IF \E i \in 1..Len(LowerCase) : LowerCase[i] = c
    THEN UpperCase[CHOOSE i \in 1..Len(LowerCase) : LowerCase[i] = c]
    ELSE c

swap_case(c) == IF lower_char(c) # c THEN lower_char(c) ELSE upper_char(c)

InsertAt(t, i, c) == SubSeq(t, 1, i) \o <<c>> \o SubSeq(t, i + 1, Len(t))
DeleteAt(t, i) == SubSeq(t, 1, i - 1) \o SubSeq(t, i + 1, Len(t))

Edits(t) ==
    {InsertAt(t, i, c) : i \in 0..Len(t), c \in {".", "?"}}
    \cup {DeleteAt(t, i) : i \in {j \in 1..Len(t) : t[j] \in {".", "?"}}}
    \cup {[t EXCEPT ![i] = swap_case(t[i])] : i \in 1..Len(t)}

\* C6: under the same speaking flag the verdict does not change when the case
\* of a letter changes or a '.' or '?' is inserted or deleted anywhere, both
\* texts being non-empty; "okay.", "okay" and "Okay?" are SUPPRESS while
\* speaking, and "YEAH" gets the verdict of "yeah".
C6_CaseAndMarkInsensitive ==
    /\ (last_call.called /\ utterance # <<>>)
           => \A t \in Edits(utterance) \ {<<>>} :
                  is_ignored(last_call.speaking, IGNORED_WORDS, t) = last_call.ret
    /\ (last_call.called /\ last_call.speaking
           /\ utterance \in {T_okay_dot, T_okay, T_Okay_q})
           => last_call.ret = SUPPRESS
    /\ (last_call.called /\ utterance = T_YEAH)
           => last_call.ret = is_ignored(last_call.speaking, IGNORED_WORDS, T_yeah)

C6_Witness ==
    /\ utterance = T_Okay_q
    /\ last_call.called /\ last_call.speaking /\ last_call.ret = SUPPRESS
    /\ T_okay \in Edits(DeleteAt(utterance, 5))

W_uh == <<"u", "h">>
W_huh == <<"h", "u", "h">>

\* The vocabulary entries no token can equal: those holding a hyphen.
Hyphenated(vocabulary) == {w \in vocabulary : "-" \in Range(w)}

\* C7: membership is tested per token: "uh-huh" is the tokens 'uh' and 'huh'
\* and is SUPPRESS while speaking exactly when both are in the vocabulary,
\* "uh-oh" is FORWARD, and no token equals a hyphenated vocabulary entry, so
\* removing such entries ('uh-huh') changes no verdict.
C7_PerTokenMembership ==
    /\ (last_call.called /\ utterance = T_uh_huh)
           => /\ last_call.words = <<W_uh, W_huh>>
              /\ last_call.speaking
                     => (last_call.ret = SUPPRESS <=> {W_uh, W_huh} \subseteq IGNORED_WORDS)
              /\ \A V \in {IGNORED_WORDS, IGNORED_WORDS \cup {W_huh},
                            (IGNORED_WORDS \cup {W_huh}) \ {W_uh}} :
                     is_ignored(TRUE, V, utterance) = ({W_uh, W_huh} \subseteq V)
    /\ (last_call.called /\ last_call.speaking /\ utterance = T_uh_oh)
           => last_call.ret = FORWARD
    /\ last_call.called
           => /\ Range(last_call.words) \cap Hyphenated(IGNORED_WORDS) = {}
              /\ last_call.ret =
                     is_ignored(last_call.speaking,
                                IGNORED_WORDS \ Hyphenated(IGNORED_WORDS), utterance)

C7_Witness ==
    /\ utterance = T_uh_huh
    /\ utterance \in Hyphenated(IGNORED_WORDS)
    /\ last_call.called /\ last_call.speaking
    /\ last_call.words = <<W_uh, W_huh>>
    /\ last_call.ret = FORWARD

\* C8: is_ignored is a pure query: no step changes the vocabulary, which
\* stays the shipped set; a step that records a classification (a direct
\* call or a completed turn) leaves the speaking flag as it was; and the
\* flag changes only in a speech-start or speech-end notification.
C8_QueryChangesNoState ==
    /\ [](IGNORED_WORDS = ShippedWords)
    /\ [][ /\ IGNORED_WORDS' = IGNORED_WORDS
           /\ (last_call' # last_call \/ turn' # turn)
                  => is_agent_speaking' = is_agent_speaking
           /\ is_agent_speaking' # is_agent_speaking
                  => (latest' = <<is_agent_speaking'>> /\ UNCHANGED <<last_call, turn>>)
         ]_vars

C8_Witness ==
    /\ is_agent_speaking
    /\ IGNORED_WORDS = ShippedWords
    /\ last_call.called /\ last_call.speaking /\ last_call.ret = SUPPRESS
    /\ turn.completed /\ turn.classified /\ turn.speaking

\* C9: a completed turn reaches the parent's on_user_turn_completed exactly
\* once if the transcript is non-empty and its verdict is FORWARD, and not at
\* all otherwise (suppressed, no message, no text, empty transcript); the
\* hook never calls the classifier with an empty transcript.
C9_ForwardedIffNonEmptyAndForward ==
    turn.completed =>
        /\ turn.downstream =
               (IF /\ turn.transcript # <<>>
                   /\ is_ignored(turn.speaking, IGNORED_WORDS, turn.transcript) = FORWARD
                THEN 1 ELSE 0)
        /\ turn.classified <=> turn.transcript # <<>>
        /\ turn.classified
               => turn.is_ignored_input =
                      is_ignored(turn.speaking, IGNORED_WORDS, turn.transcript)
        /\ turn.new_message \in {None, Bare}
               => (turn.transcript = <<>> /\ turn.downstream = 0)
        /\ turn.new_message \notin {None, Bare}
               => turn.transcript = turn.new_message.text

C9_Witness ==
    /\ turn.completed /\ turn.speaking
    /\ turn.new_message = Message(T_two_fillers)
    /\ turn.classified /\ turn.is_ignored_input = SUPPRESS
    /\ turn.downstream = 0

\* C10: with notifications falling anywhere between the statements of the
\* hook, the flag is always the value of the latest notification, and the
\* verdict of a classified transcript is the verdict of an atomic is_ignored
\* under the flag of the latest notification before the read at line 57; the
\* parent hook is reached according to that verdict.
C10_VerdictIsAtomicAtTheRead ==
    /\ is_agent_speaking = (latest = <<TRUE>>)
    /\ (frame.pc \in {"decide", "returned"} /\ frame.read # <<>>)
           => frame.ret =
                  is_ignored(frame.read[1] = <<TRUE>>, IGNORED_WORDS, frame.transcript)
    /\ (frame.pc = "returned" /\ frame.read # <<>>)
           => frame.downstream = (IF frame.ret = SUPPRESS THEN 0 ELSE 1)
    /\ (frame.pc = "returned" /\ frame.read = <<>>)
           => (frame.transcript = <<>> /\ frame.downstream = 0)

\* The agent stopped speaking between the read of the flag and the filler
\* test, and the verdict is still the one of the flag that was read.
C10_Witness ==
    /\ frame.pc = "returned"
    /\ frame.transcript = T_yeah
    /\ frame.read = << <<TRUE>> >>
    /\ frame.at_verdict = << <<FALSE>> >>
    /\ frame.ret = SUPPRESS /\ frame.downstream = 0

====
